---------------------------- MODULE Spec2Model ----------------------------
(***************************************************************************)
(* Boot-time memory subsystem of core-os-riscv: the physical frame        *)
(* allocator (kernel/src/mem.rs), build_satp (kernel/src/arch.rs) and the  *)
(* boot sequence kinit (kernel/src/lib.rs).                                *)
(*                                                                         *)
(* Heap addresses are naturals.  The allocator only ever adds multiples of *)
(* PAGE_SIZE to base_addr and subtracts base_addr again, so the heap is    *)
(* placed low enough for every address to stay far below 2^31.  The 64-bit *)
(* values handled by build_satp are sets of bit positions (see U64 below). *)
(***************************************************************************)
EXTENDS Integers, Sequences, FiniteSets, Bags, TLC

\* mem.rs:10 -- MAX_PAGE is 128 MiB / 4 KiB = 32768 in the source; the model
\* keeps the table's shape and scales its length down.
MAX_PAGE == 4

\* symbols.rs is not part of the sources; the page is 4 KiB (1 << 12).
PAGE_ORDER == 12
PAGE_SIZE == 4096

\* saturation point of the ghost counter of calls made since init()
OpsCap == 3

Slots == 0 .. (MAX_PAGE - 1)

\* HEAP_START is a linker symbol: one value that is page-aligned already and
\* one that is not (0x93000 and 0x93058).
HeapStarts == {602112, 602200}

\* request sizes in bytes: for every page count 1 .. MAX_PAGE + 1 the
\* smallest size that needs it, and the sizes of exactly one page and of
\* exactly MAX_PAGE pages
Sizes == {(k - 1) * PAGE_SIZE + 1 : k \in 1 .. (MAX_PAGE + 1)}
           \cup {PAGE_SIZE, MAX_PAGE * PAGE_SIZE}

NoPtr == -1

VARIABLES
    page_allocated,   \* Allocator.page_allocated: slot -> 0 (free) or run length
    base_addr,        \* Allocator.base_addr
    halted,           \* the hart is in wait_forever() after a panic
    panic_msg,        \* the message of that panic, "" while running
    ret,              \* the pointer returned by the last allocate, or NoPtr
    out,              \* the records printed by the last debug()
    live,             \* ghost: bag of [addr, size] of the allocations not yet freed
    hist,             \* ghost: the last two calls
    pre_table,        \* ghost: page_allocated as it was before the last call
    nops,             \* ghost: calls since init(), saturating at OpsCap
    satp_args,        \* the arguments of the last build_satp call, or NoCall
    satp_val,         \* the value it returned, or NoVal
    pc,               \* kinit: index of the next step in KinitSteps, 0 = not booting
    layout,           \* the linker's HEAP_START, HEAP_SIZE and the address of
                      \* the kernel page table
    pgtable,          \* KERNEL_PGTABLE: the mappings installed so far
    satp_reg,         \* the satp control register
    mscratch,         \* the mscratch register: the hart whose record it points at
    trap_frame,       \* cpu::KERNEL_TRAP_FRAME: hart -> [satp, sp, hartid]
    stack_addr,       \* kinit's local stack_addr
    events,           \* ghost: the mapping calls and register writes, in order
    lock,             \* which of the two Mutex-guarded statics is locked
    intr,             \* the hart's sie source bits and the sstatus.SIE bit
    intr_hist,        \* ghost: the calls of intr_on, intr_off and intr_get so far
    intr_got,         \* ghost: the value the last intr_get returned, if any
    hart_pc,          \* kinit_hart: where each secondary hart stands
    hart_mscratch,    \* the mscratch register of each secondary hart
    freed,            \* ghost: the runs deallocated and not reused since
    placed            \* ghost: the run the last allocate took, and the freed
                      \* runs there were when it was called

allocVars == <<page_allocated, base_addr, ret, out, live, hist, pre_table, nops>>
satpVars == <<satp_args, satp_val>>
bootVars == <<pc, layout, pgtable, satp_reg, mscratch, trap_frame, stack_addr,
              events>>

auxVars == <<intr, intr_hist, intr_got, hart_pc, hart_mscratch, freed, placed>>

vars == <<page_allocated, base_addr, halted, panic_msg, ret, out, live, hist,
          pre_table, nops, satp_args, satp_val, pc, layout, pgtable, satp_reg,
          mscratch, trap_frame, stack_addr, events, lock, intr, intr_hist,
          intr_got, hart_pc, hart_mscratch, freed, placed>>

-----------------------------------------------------------------------------
(* mem.rs: helpers *)

\* mutant of align_val: rounds down instead of up
align_val_RoundDown(val, order) ==
    val - (val % (2 ^ order))

\* (val + o) & !o with o = 2^order - 1: clearing the low `order` bits
align_val(val, order) ==
    LET o == 2 ^ order - 1
    IN  (val + o) - ((val + o) % (o + 1))

offset_addr_of(base, id) == base + id * PAGE_SIZE

offset_page_of(base, page) == (page - base) \div PAGE_SIZE

\* mutant of ScanRun: the inner loop does not look at the slots after the
\* first one
ScanRun_NoInnerCheck(tab, i, j, n) ==
    IF i + n > MAX_PAGE THEN "oob" ELSE "found"

\* the inner loop `for j in 0..page_required` of allocate, from offset j on.
\* Indexing page_allocated[i + j] with i + j >= MAX_PAGE is a bounds-check
\* panic.
RECURSIVE ScanRun(_, _, _, _)
ScanRun(tab, i, j, n) ==
    IF j >= n THEN "found"
    ELSE IF i + j >= MAX_PAGE THEN "oob"
    ELSE IF tab[i + j] # 0 THEN "taken"
    ELSE ScanRun(tab, i, j + 1, n)

\* mutant of ScanRunReads: the index is not checked against the table length
\* and the memory behind the table reads as 0
RECURSIVE ScanRunReads_Unchecked(_, _, _, _)
ScanRunReads_Unchecked(tab, i, j, n) ==
    IF j >= n THEN {}
    ELSE {i + j} \cup
         (IF i + j < MAX_PAGE /\ tab[i + j] # 0 THEN {}
          ELSE ScanRunReads_Unchecked(tab, i, j + 1, n))

\* the slot indices the inner loop of allocate reads, from offset j on: the
\* bounds check of page_allocated[i + j] panics before any access is made
RECURSIVE ScanRunReads(_, _, _, _)
ScanRunReads(tab, i, j, n) ==
    IF j >= n THEN {}
    ELSE IF i + j >= MAX_PAGE THEN {}
    ELSE {i + j} \cup
         (IF tab[i + j] # 0 THEN {} ELSE ScanRunReads(tab, i, j + 1, n))

\* mutant of FirstFit: the outer loop stops one index early
RECURSIVE FirstFit_SkipLast(_, _, _)
FirstFit_SkipLast(tab, i, n) ==
    IF i >= MAX_PAGE - 1
    THEN [ok |-> FALSE, index |-> 0, msg |-> "no available page"]
    ELSE IF tab[i] # 0 THEN FirstFit_SkipLast(tab, i + 1, n)
    ELSE LET r == ScanRun(tab, i, 0, n)
         IN  CASE r = "found" -> [ok |-> TRUE, index |-> i, msg |-> ""]
               [] r = "oob"   -> [ok |-> FALSE, index |-> 0,
                                  msg |-> "index out of bounds"]
               [] OTHER       -> FirstFit_SkipLast(tab, i + 1, n)

\* the outer loop `for i in 0..MAX_PAGE` of allocate, from index i on
RECURSIVE FirstFit(_, _, _)
FirstFit(tab, i, n) ==
    IF i >= MAX_PAGE THEN [ok |-> FALSE, index |-> 0, msg |-> "no available page"]
    ELSE IF tab[i] # 0 THEN FirstFit(tab, i + 1, n)
    ELSE LET r == ScanRun(tab, i, 0, n)
         IN  CASE r = "found" -> [ok |-> TRUE, index |-> i, msg |-> ""]
               [] r = "oob"   -> [ok |-> FALSE, index |-> 0,
                                  msg |-> "index out of bounds"]
               [] OTHER       -> FirstFit(tab, i + 1, n)

\* the slot indices the loops of allocate read, from index i on
RECURSIVE FirstFitReads(_, _, _)
FirstFitReads(tab, i, n) ==
    IF i >= MAX_PAGE THEN {}
    ELSE {i} \cup
         (IF tab[i] # 0 THEN FirstFitReads(tab, i + 1, n)
          ELSE ScanRunReads(tab, i, 0, n) \cup
               (IF ScanRun(tab, i, 0, n) = "taken"
                THEN FirstFitReads(tab, i + 1, n)
                ELSE {}))

\* the slot indices allocate writes: those of the marking loop
MarkRunWrites(i, n) == {i + j : j \in 0 .. (n - 1)}

\* every slot index allocate(size) touches on table tab
AllocTouched(tab, size) ==
    LET page_required == align_val(size, PAGE_ORDER) \div PAGE_SIZE
        f == FirstFit(tab, 0, page_required)
    IN  FirstFitReads(tab, 0, page_required)
          \cup (IF f.ok THEN MarkRunWrites(f.index, page_required) ELSE {})

\* mutant of MarkRun: each slot gets the length of the rest of the run
MarkRun_Countdown(tab, i, n) ==
    [s \in Slots |-> IF i <= s /\ s < i + n THEN n - (s - i) ELSE tab[s]]

\* `for j in 0..page_required { page_allocated[i + j] = page_required }`
MarkRun(tab, i, n) ==
    [s \in Slots |-> IF i <= s /\ s < i + n THEN n ELSE tab[s]]

\* mutant of ClearRun: the first slot of the run keeps its length, as the
\* header of a free region would
ClearRun_KeepHead(tab, id, stride) ==
    [s \in Slots |-> IF id < s /\ s < id + stride THEN 0 ELSE tab[s]]

\* mutant of ClearRun: the loop runs one slot too far
ClearRun_OneMore(tab, id, stride) ==
    [s \in Slots |-> IF id <= s /\ s < id + stride + 1 THEN 0 ELSE tab[s]]

\* mutant of ClearRun: the loop stops one slot early
ClearRun_OneShort(tab, id, stride) ==
    [s \in Slots |-> IF id <= s /\ s < id + stride - 1 THEN 0 ELSE tab[s]]

\* `for j in 0..page_stride { page_allocated[j + id] = 0 }`
ClearRun(tab, id, stride) ==
    [s \in Slots |-> IF id <= s /\ s < id + stride THEN 0 ELSE tab[s]]

\* Allocator::allocate: the new table and the returned pointer, or the panic
allocate(tab, base, size) ==
    LET page_required == align_val(size, PAGE_ORDER) \div PAGE_SIZE
        f == FirstFit(tab, 0, page_required)
    IN  IF f.ok
        THEN [ok |-> TRUE, table |-> MarkRun(tab, f.index, page_required),
              ptr |-> offset_addr_of(base, f.index), msg |-> ""]
        ELSE [ok |-> FALSE, table |-> tab, ptr |-> NoPtr, msg |-> f.msg]

\* Allocator::deallocate.  Reading page_allocated[id] or writing
\* page_allocated[j + id] at an index >= MAX_PAGE is a bounds-check panic.
deallocate(tab, base, addr) ==
    LET id == offset_page_of(base, addr)
    IN  IF id \notin Slots
        THEN [ok |-> FALSE, table |-> tab, msg |-> "index out of bounds"]
        ELSE LET page_stride == tab[id]
             IN  IF id + page_stride > MAX_PAGE
                 THEN [ok |-> FALSE,
                       table |-> ClearRun(tab, id, MAX_PAGE - id),
                       msg |-> "index out of bounds"]
                 ELSE [ok |-> TRUE, table |-> ClearRun(tab, id, page_stride),
                       msg |-> ""]

\* mutant of DebugScan: the scan always advances by one slot
RECURSIVE DebugScan_StepOne(_, _, _, _)
DebugScan_StepOne(tab, base, j, acc) ==
    IF j >= MAX_PAGE
    THEN [ok |-> FALSE, recs |-> acc, msg |-> "index out of bounds"]
    ELSE LET size == tab[j]
             rec  == [index |-> j, from |-> offset_addr_of(base, j),
                      to |-> offset_addr_of(base, j + size), pages |-> size]
             acc2 == IF size # 0 THEN Append(acc, rec) ELSE acc
         IN  IF j + 1 = MAX_PAGE
             THEN [ok |-> TRUE, recs |-> acc2, msg |-> ""]
             ELSE DebugScan_StepOne(tab, base, j + 1, acc2)

\* the loop of Allocator::debug from index j on, `acc` the records printed so
\* far.  The loop reads page_allocated[j] before it tests j == MAX_PAGE.
RECURSIVE DebugScan(_, _, _, _)
DebugScan(tab, base, j, acc) ==
    IF j >= MAX_PAGE
    THEN [ok |-> FALSE, recs |-> acc, msg |-> "index out of bounds"]
    ELSE LET size == tab[j]
             rec  == [index |-> j, from |-> offset_addr_of(base, j),
                      to |-> offset_addr_of(base, j + size), pages |-> size]
             acc2 == IF size # 0 THEN Append(acc, rec) ELSE acc
             j2   == IF size # 0 THEN j + size ELSE j + 1
         IN  IF j2 = MAX_PAGE
             THEN [ok |-> TRUE, recs |-> acc2, msg |-> ""]
             ELSE DebugScan(tab, base, j2, acc2)

\* the indices j at which the loop of Allocator::debug reads
\* page_allocated[j], in order, and the value of j when the loop ends; a
\* read at j >= MAX_PAGE is a bounds-check panic
RECURSIVE DebugPath(_, _, _)
DebugPath(tab, j, path) ==
    IF j >= MAX_PAGE
    THEN [ok |-> FALSE, path |-> path, final |-> j]
    ELSE LET size == tab[j]
             j2   == IF size # 0 THEN j + size ELSE j + 1
         IN  IF j2 = MAX_PAGE
             THEN [ok |-> TRUE, path |-> Append(path, j), final |-> j2]
             ELSE DebugPath(tab, j2, Append(path, j))

debug(tab, base) == DebugScan(tab, base, 0, <<>>)

-----------------------------------------------------------------------------
(* arch.rs: build_satp.  A usize is 64 bits wide; it is modelled as the set *)
(* of the positions of its 1 bits, bit 0 the least significant.             *)

WordBits == 0 .. 63

\* the word of a natural below 2^31
U(n) == {b \in 0 .. 30 : (n \div (2 ^ b)) % 2 = 1}

\* the natural of a word that has no bit above bit 30
RECURSIVE Val(_)
Val(v) ==
    IF v = {} THEN 0
    ELSE LET b == CHOOSE x \in v : TRUE
         IN  2 ^ b + Val(v \ {b})

\* v << k and v >> k on a 64-bit word: bits shifted out are lost
Shl(v, k) == {b + k : b \in v} \cap WordBits
Shr(v, k) == {b - k : b \in {x \in v : x >= k}}

BitAnd(v, w) == v \cap w
BitOr(v, w) == v \cup w

\* v % m for m a power of two below 2^31: the bits of v below that of m
URem(v, m) == Val({b \in v : b <= 30 /\ 2 ^ b < m})

\* the literals 0xffff and 0xff_ffff_ffff of arch.rs:24
Mask_ffff == 0 .. 15
Mask_ff_ffff_ffff == 0 .. 39

\* mutant of build_satp: the alignment test looks at the low byte only
build_satp_LowByteCheck(mode, asid, addr) ==
    IF URem(addr, 256) # 0
    THEN [ok |-> FALSE, val |-> {}, msg |-> "satp not aligned!"]
    ELSE [ok |-> TRUE,
          val |-> BitOr(BitOr(Shl(mode, 60), Shl(BitAnd(asid, Mask_ffff), 44)),
                        BitAnd(Shr(addr, 12), Mask_ff_ffff_ffff)),
          msg |-> ""]

\* build_satp.  In Rust << and >> bind tighter than &, and & tighter than |:
\* (mode << 60) | ((asid & 0xffff) << 44) | ((addr >> 12) & 0xff_ffff_ffff)
build_satp(mode, asid, addr) ==
    IF URem(addr, PAGE_SIZE) # 0
    THEN [ok |-> FALSE, val |-> {}, msg |-> "satp not aligned!"]
    ELSE [ok |-> TRUE,
          val |-> BitOr(BitOr(Shl(mode, 60), Shl(BitAnd(asid, Mask_ffff), 44)),
                        BitAnd(Shr(addr, 12), Mask_ff_ffff_ffff)),
          msg |-> ""]

NoCall == [none |-> TRUE]
NoVal == {-1}

\* arguments tried: modes of the 4-bit field (8 is Sv39, the one kinit uses)
Modes == {0, 8, 9, 15}

\* ASIDs inside the 16-bit field and one that needs 17 bits
Asids == {0, 1, 65535, 65541}

\* root frame numbers, as words: 0, 1, 0x80094, the top bit and the full
\* width of a 40-bit, of a 44-bit and of a 52-bit frame number
Frames == {{}, {0}, U(524436), {39}, 0 .. 39, {40}, {43}, 0 .. 43, {51}, 0 .. 51}

\* offsets of the root inside its page
Offsets == {0, 1, 8, 2048, 4095}

-----------------------------------------------------------------------------
(* lib.rs: kinit.  The page table, the trap frames and the linker symbols   *)
(* live in page.rs, cpu.rs and symbols.rs, which are not part of the        *)
(* sources: they are modelled from the design document.                     *)

\* section boundaries, scaled like HeapStarts (0x80000 text .. 0x88000)
TEXT_START == 524288
TEXT_END == 532480
RODATA_START == 532480
RODATA_END == 536576
DATA_START == 536576
DATA_END == 540672
BSS_START == 540672
BSS_END == 548864
KERNEL_STACK_START == 548864
KERNEL_STACK_END == 557056
UART_BASE_ADDR == 268435456
TRAMPOLINE_START == 1073737728
TRAMPOLINE_TEXT_START == 528384

\* the literals of lib.rs:114-117
CLINT_START == 33554432
CLINT_END == 33619967
PLIC_START == 201326592
PLIC_END == 201334784
PLIC_CTX_START == 203423744
PLIC_CTX_END == 203456512

\* HEAP_SIZE in pages: a heap of a single page, and the heap the table is
\* sized for less the page the kernel image takes
HeapPages == {1, MAX_PAGE - 1}

\* the address of the static KERNEL_PGTABLE: page-aligned, or not
RootAddrs == {544768, 544784}

\* pages taken from the allocator by uart::init() and page::init() before
\* kinit allocates its stack
MaxEarlyPages == 4

NHARTS == 4
Harts == 0 .. (NHARTS - 1)

\* Table::id_map_range: every page-aligned address of [start, end) is mapped
\* to itself
id_map_range(tab, start, end, perm) ==
    tab \cup {[va |-> k * PAGE_SIZE, pa |-> k * PAGE_SIZE, perm |-> perm] :
                k \in ((start + PAGE_SIZE - 1) \div PAGE_SIZE)
                         .. ((end - 1) \div PAGE_SIZE)}

\* Table::map: one page
map(tab, va, pa, perm) ==
    tab \cup {[va |-> va, pa |-> pa, perm |-> perm]}

\* the mapping calls of lib.rs:69-117, by step
StaticMap(tab, step, lay) ==
    CASE step = "map_text" ->
           id_map_range(tab, TEXT_START, TEXT_END, "RX")
      [] step = "map_rodata" ->
           id_map_range(tab, RODATA_START, RODATA_END, "RX")
      [] step = "map_data" ->
           id_map_range(tab, DATA_START, DATA_END, "RW")
      [] step = "map_bss" ->
           id_map_range(tab, BSS_START, BSS_END, "RW")
      [] step = "map_kstack" ->
           id_map_range(tab, KERNEL_STACK_START, KERNEL_STACK_END, "RW")
      [] step = "map_uart" ->
           map(tab, UART_BASE_ADDR, UART_BASE_ADDR, "RW")
      [] step = "map_trampoline" ->
           map(tab, TRAMPOLINE_START, TRAMPOLINE_TEXT_START, "RX")
      [] step = "map_heap" ->
           id_map_range(tab, lay.heap_start, lay.heap_start + lay.heap_size, "RW")
      [] step = "map_clint" ->
           id_map_range(tab, CLINT_START, CLINT_END, "RW")
      [] step = "map_plic" ->
           id_map_range(tab, PLIC_START, PLIC_END, "RW")
      [] step = "map_plic_ctx" ->
           id_map_range(tab, PLIC_CTX_START, PLIC_CTX_END, "RW")

StaticMapSteps ==
    {"map_text", "map_rodata", "map_data", "map_bss", "map_kstack", "map_uart",
     "map_trampoline", "map_heap", "map_clint", "map_plic", "map_plic_ctx"}

\* mutant of KinitSteps: the stack page is mapped after satp is written
KinitSteps_LateStackMap ==
    <<"alloc_init", "collab_init", "lock_pgtable",
      "map_text", "map_rodata", "map_data", "map_bss", "map_kstack", "map_uart",
      "map_trampoline", "map_heap", "map_clint", "map_plic", "map_plic_ctx",
      "build_satp", "write_mscratch", "store_satp", "alloc_stack", "store_sp",
      "store_hartid", "csrw_satp", "map_stack", "sfence_vma", "return">>

\* mutant of KinitSteps: mscratch is written before build_satp is called
KinitSteps_ScratchFirst ==
    <<"alloc_init", "collab_init", "lock_pgtable",
      "map_text", "map_rodata", "map_data", "map_bss", "map_kstack", "map_uart",
      "map_trampoline", "map_heap", "map_clint", "map_plic", "map_plic_ctx",
      "write_mscratch", "build_satp", "store_satp", "alloc_stack", "store_sp",
      "store_hartid", "map_stack", "csrw_satp", "sfence_vma", "return">>

\* the statements of kinit in program order (lib.rs:54-140)
KinitSteps ==
    <<"alloc_init", "collab_init", "lock_pgtable",
      "map_text", "map_rodata", "map_data", "map_bss", "map_kstack", "map_uart",
      "map_trampoline", "map_heap", "map_clint", "map_plic", "map_plic_ctx",
      "build_satp", "write_mscratch", "store_satp", "alloc_stack", "store_sp",
      "store_hartid", "map_stack", "csrw_satp", "sfence_vma", "return">>

KinitDone == Len(KinitSteps) + 1

\* the trap frames before any hart has been brought up
UnsetFrame == [satp |-> {}, sp |-> 0, hartid |-> 0]

\* the boot part of the state while no hart is booting
BootIdle ==
    /\ pc = 0
    /\ layout = [heap_start |-> 0, heap_size |-> 0, root |-> 0]
    /\ pgtable = {}
    /\ satp_reg = {}
    /\ mscratch = NoPtr
    /\ trap_frame = [h \in Harts |-> UnsetFrame]
    /\ stack_addr = NoPtr
    /\ events = <<>>

\* the harts that enter kinit_hart
Secondary == Harts \ {0}

\* the interrupt bits with nothing enabled
IntrClear == [sext |-> FALSE, ssoft |-> FALSE, stimer |-> FALSE, sie |-> FALSE]

\* the locks, the secondary harts and the ghosts while nothing has run
AuxIdle ==
    /\ lock = [alloc |-> FALSE, pgtable |-> FALSE]
    /\ intr_hist = <<>>
    /\ intr_got = <<>>
    /\ hart_pc = [h \in Secondary |-> "entry"]
    /\ hart_mscratch = [h \in Secondary |-> NoPtr]
    /\ freed = {}
    /\ placed = {}

\* a panic inside ALLOC().lock().f(..) enters the panic handler, which never
\* returns (lib.rs:30-49): the guard of the statement is never dropped
AfterAllocCall(l, panicked) ==
    IF panicked THEN [l EXCEPT !.alloc = TRUE] ELSE l

-----------------------------------------------------------------------------
(* ghost bookkeeping *)

Call(op, size, ptr, ok) == [op |-> op, size |-> size, ptr |-> ptr, ok |-> ok]

Push(h, c) == IF Len(h) < 2 THEN Append(h, c) ELSE <<h[2], c>>

Bump(n) == IF n < OpsCap THEN n + 1 ELSE n

\* the call before the last one and the last one
Last == hist[Len(hist)]
Prev == hist[Len(hist) - 1]

-----------------------------------------------------------------------------
(* the allocator and its callers *)

\* Allocator::new() builds an all-zero table with base_addr 0, but the static
\* lives in a data region nobody has zeroed (lib.rs:53 is commented out,
\* mem.rs:112): the table holds whatever the memory held.
Init ==
    /\ page_allocated \in [Slots -> {0, 1}]
    /\ base_addr = 0
    /\ halted = FALSE
    /\ panic_msg = ""
    /\ ret = NoPtr
    /\ out = <<>>
    /\ live = EmptyBag
    /\ hist = <<>>
    /\ pre_table = page_allocated
    /\ nops = 0
    /\ satp_args = NoCall
    /\ satp_val = NoVal
    /\ BootIdle
    /\ AuxIdle
    /\ intr = IntrClear

\* mutant of AllocInit: the table is not zeroed
AllocInit_NoZero ==
    /\ ~halted
    /\ hist = <<>>
    /\ \E hs \in HeapStarts :
         base_addr' = align_val(hs, PAGE_ORDER)
    /\ pre_table' = page_allocated
    /\ hist' = <<Call("init", 0, NoPtr, TRUE)>>
    /\ nops' = 0
    /\ UNCHANGED <<page_allocated, halted, panic_msg, ret, out, live>>
    /\ UNCHANGED <<satpVars, bootVars>>
    /\ UNCHANGED <<lock, auxVars>>

\* mem::init(), the first call of kinit
AllocInit ==
    /\ ~halted
    /\ hist = <<>>
    /\ \E hs \in HeapStarts :
         base_addr' = align_val(hs, PAGE_ORDER)
    /\ page_allocated' = [s \in Slots |-> 0]
    /\ pre_table' = page_allocated
    /\ hist' = <<Call("init", 0, NoPtr, TRUE)>>
    /\ nops' = 0
    /\ UNCHANGED <<halted, panic_msg, ret, out, live>>
    /\ UNCHANGED <<satpVars, bootVars>>
    /\ UNCHANGED <<lock, auxVars>>

\* a caller's ALLOC().lock().allocate(size)
Allocate ==
    /\ ~halted
    /\ hist # <<>>
    /\ \E size \in Sizes :
         LET r == allocate(page_allocated, base_addr, size)
         IN  /\ page_allocated' = r.table
             /\ ret' = r.ptr
             /\ halted' = ~r.ok
             /\ panic_msg' = r.msg
             /\ live' = IF r.ok
                        THEN live (+) SetToBag({[addr |-> r.ptr, size |-> size]})
                        ELSE live
             /\ hist' = Push(hist, Call("allocate", size, r.ptr, r.ok))
    /\ pre_table' = page_allocated
    /\ nops' = Bump(nops)
    /\ out' = <<>>
    /\ UNCHANGED base_addr
    /\ UNCHANGED <<satpVars, bootVars>>
    /\ lock' = AfterAllocCall(lock, halted')
    /\ UNCHANGED auxVars

\* a caller's ALLOC().lock().deallocate(ptr), ptr the start address of an
\* allocation it still holds
Deallocate ==
    /\ ~halted
    /\ hist # <<>>
    /\ \E a \in BagToSet(live) :
         LET r == deallocate(page_allocated, base_addr, a.addr)
         IN  /\ page_allocated' = r.table
             /\ halted' = ~r.ok
             /\ panic_msg' = r.msg
             /\ live' = live (-) SetToBag({a})
             /\ hist' = Push(hist, Call("deallocate", a.size, a.addr, r.ok))
    /\ pre_table' = page_allocated
    /\ nops' = Bump(nops)
    /\ out' = <<>>
    /\ UNCHANGED <<base_addr, ret>>
    /\ UNCHANGED <<satpVars, bootVars>>
    /\ lock' = AfterAllocCall(lock, halted')
    /\ UNCHANGED auxVars

\* a caller's ALLOC().lock().debug()
Debug ==
    /\ ~halted
    /\ hist # <<>>
    /\ Last.op # "debug"
    /\ LET r == debug(page_allocated, base_addr)
       IN  /\ out' = r.recs
           /\ halted' = ~r.ok
           /\ panic_msg' = r.msg
           /\ hist' = Push(hist, Call("debug", 0, NoPtr, r.ok))
    /\ pre_table' = page_allocated
    /\ nops' = Bump(nops)
    /\ UNCHANGED <<page_allocated, base_addr, ret, live>>
    /\ UNCHANGED <<satpVars, bootVars>>
    /\ lock' = AfterAllocCall(lock, halted')
    /\ UNCHANGED auxVars

Next == AllocInit \/ Allocate \/ Deallocate \/ Debug

Spec == Init /\ [][Next]_vars

-----------------------------------------------------------------------------
(* the allocator under callers that free and reuse runs *)

\* the slots of a run [start, start + pages)
RunSlots(f) == f.start .. (f.start + f.pages - 1)

\* the allocator after mem::init()
InitSeam ==
    /\ page_allocated = [s \in Slots |-> 0]
    /\ base_addr \in {align_val(hs, PAGE_ORDER) : hs \in HeapStarts}
    /\ halted = FALSE
    /\ panic_msg = ""
    /\ ret = NoPtr
    /\ out = <<>>
    /\ live = EmptyBag
    /\ hist = <<>>
    /\ pre_table = page_allocated
    /\ nops = 0
    /\ satp_args = NoCall
    /\ satp_val = NoVal
    /\ BootIdle
    /\ AuxIdle
    /\ intr = IntrClear

\* ALLOC().lock().allocate(size), remembering the run taken and the freed
\* runs it met
SeamAllocate ==
    /\ ~halted
    /\ \E size \in Sizes :
         LET r == allocate(page_allocated, base_addr, size)
             run == [start |-> offset_page_of(base_addr, r.ptr),
                     pages |-> align_val(size, PAGE_ORDER) \div PAGE_SIZE]
         IN  /\ page_allocated' = r.table
             /\ ret' = r.ptr
             /\ halted' = ~r.ok
             /\ panic_msg' = r.msg
             /\ live' = IF r.ok
                        THEN live (+) SetToBag({[addr |-> r.ptr, size |-> size]})
                        ELSE live
             /\ placed' = IF r.ok
                          THEN {[start |-> run.start, pages |-> run.pages,
                                 over |-> freed]}
                          ELSE {}
             /\ freed' = IF r.ok
                         THEN {f \in freed : RunSlots(f) \cap RunSlots(run) = {}}
                         ELSE freed
    /\ pre_table' = page_allocated
    /\ lock' = AfterAllocCall(lock, halted')
    /\ UNCHANGED <<base_addr, out, hist, nops, satpVars, bootVars, intr,
                   intr_hist, intr_got, hart_pc, hart_mscratch>>

\* ALLOC().lock().deallocate(ptr) of an allocation still held, remembering
\* the run it frees
SeamDeallocate ==
    /\ ~halted
    /\ \E a \in BagToSet(live) :
         LET r == deallocate(page_allocated, base_addr, a.addr)
             id == offset_page_of(base_addr, a.addr)
         IN  /\ page_allocated' = r.table
             /\ halted' = ~r.ok
             /\ panic_msg' = r.msg
             /\ live' = live (-) SetToBag({a})
             /\ freed' = freed \cup {[start |-> id, pages |-> page_allocated[id]]}
    /\ placed' = {}
    /\ pre_table' = page_allocated
    /\ lock' = AfterAllocCall(lock, halted')
    /\ UNCHANGED <<base_addr, ret, out, hist, nops, satpVars, bootVars, intr,
                   intr_hist, intr_got, hart_pc, hart_mscratch>>

NextSeam == SeamAllocate \/ SeamDeallocate

SpecSeam == InitSeam /\ [][NextSeam]_vars

-----------------------------------------------------------------------------
(* the allocator under callers that may ask for any size *)

\* the request sizes of Sizes and the empty request
AnySizes == {0} \cup Sizes

\* the allocations a caller holds at a time
MaxLive == 3

\* ALLOC().lock().allocate(size) for any size
ZeroAllocate ==
    /\ ~halted
    /\ BagCardinality(live) < MaxLive
    /\ \E size \in AnySizes :
         LET r == allocate(page_allocated, base_addr, size)
         IN  /\ page_allocated' = r.table
             /\ ret' = r.ptr
             /\ halted' = ~r.ok
             /\ panic_msg' = r.msg
             /\ live' = IF r.ok
                        THEN live (+) SetToBag({[addr |-> r.ptr, size |-> size]})
                        ELSE live
    /\ pre_table' = page_allocated
    /\ lock' = AfterAllocCall(lock, halted')
    /\ UNCHANGED <<base_addr, out, hist, nops, satpVars, bootVars, auxVars>>

\* ALLOC().lock().deallocate(ptr), ptr returned by an allocate and not yet
\* passed to deallocate
ZeroDeallocate ==
    /\ ~halted
    /\ \E a \in BagToSet(live) :
         LET r == deallocate(page_allocated, base_addr, a.addr)
         IN  /\ page_allocated' = r.table
             /\ halted' = ~r.ok
             /\ panic_msg' = r.msg
             /\ live' = live (-) SetToBag({a})
    /\ pre_table' = page_allocated
    /\ lock' = AfterAllocCall(lock, halted')
    /\ UNCHANGED <<base_addr, ret, out, hist, nops, satpVars, bootVars, auxVars>>

NextZero == ZeroAllocate \/ ZeroDeallocate

SpecZero == InitSeam /\ [][NextZero]_vars

-----------------------------------------------------------------------------
(* build_satp and its callers *)

InitSatp ==
    /\ page_allocated = [s \in Slots |-> 0]
    /\ base_addr = 0
    /\ halted = FALSE
    /\ panic_msg = ""
    /\ ret = NoPtr
    /\ out = <<>>
    /\ live = EmptyBag
    /\ hist = <<>>
    /\ pre_table = page_allocated
    /\ nops = 0
    /\ satp_args = NoCall
    /\ satp_val = NoVal
    /\ BootIdle
    /\ AuxIdle
    /\ intr = IntrClear

\* a call build_satp(mode, asid, addr) with addr = frame * PAGE_SIZE + off
BuildSatp ==
    /\ ~halted
    /\ \E mode \in Modes, asid \in Asids, frame \in Frames, off \in Offsets :
         LET addr == BitOr(Shl(frame, PAGE_ORDER), U(off))
             r == build_satp(U(mode), U(asid), addr)
         IN  /\ satp_args' = [mode |-> mode, asid |-> asid, frame |-> frame,
                              off |-> off]
             /\ satp_val' = IF r.ok THEN r.val ELSE NoVal
             /\ halted' = ~r.ok
             /\ panic_msg' = r.msg
    /\ UNCHANGED <<allocVars, bootVars>>
    /\ UNCHANGED <<lock, auxVars>>

NextSatp == BuildSatp

SpecSatp == InitSatp /\ [][NextSatp]_vars

-----------------------------------------------------------------------------
(* intr_on, intr_off, intr_get and their callers *)

\* the calls a run makes before it stops
MaxCalls == 4

\* mutant of intr_on: the timer source is not enabled
intr_on_NoTimer(i) ==
    [i EXCEPT !.sext = TRUE, !.ssoft = TRUE, !.sie = TRUE]

\* arch.rs:28-35 sie::set_sext(), set_ssoft(), set_stimer(), sstatus::set_sie()
intr_on(i) ==
    [i EXCEPT !.sext = TRUE, !.ssoft = TRUE, !.stimer = TRUE, !.sie = TRUE]

\* arch.rs:38-42 sstatus::clear_sie()
intr_off(i) == [i EXCEPT !.sie = FALSE]

\* arch.rs:45-49 sstatus::read().sie()
intr_get(i) == i.sie

\* the bits hold whatever the hart held before the first call
InitIntr ==
    /\ page_allocated = [s \in Slots |-> 0]
    /\ base_addr = 0
    /\ halted = FALSE
    /\ panic_msg = ""
    /\ ret = NoPtr
    /\ out = <<>>
    /\ live = EmptyBag
    /\ hist = <<>>
    /\ pre_table = page_allocated
    /\ nops = 0
    /\ satp_args = NoCall
    /\ satp_val = NoVal
    /\ BootIdle
    /\ AuxIdle
    /\ intr \in [sext : BOOLEAN, ssoft : BOOLEAN, stimer : BOOLEAN,
                  sie : BOOLEAN]

\* what a call of the three functions leaves alone
IntrFrame ==
    UNCHANGED <<allocVars, halted, panic_msg, satpVars, bootVars, lock, hart_pc,
                hart_mscratch, freed, placed>>

IntrOn ==
    /\ Len(intr_hist) < MaxCalls
    /\ intr' = intr_on(intr)
    /\ intr_hist' = Append(intr_hist, "on")
    /\ UNCHANGED intr_got
    /\ IntrFrame

IntrOff ==
    /\ Len(intr_hist) < MaxCalls
    /\ intr' = intr_off(intr)
    /\ intr_hist' = Append(intr_hist, "off")
    /\ UNCHANGED intr_got
    /\ IntrFrame

IntrGet ==
    /\ Len(intr_hist) < MaxCalls
    /\ intr_got' = <<intr_get(intr)>>
    /\ intr_hist' = Append(intr_hist, "get")
    /\ UNCHANGED intr
    /\ IntrFrame

NextIntr == IntrOn \/ IntrOff \/ IntrGet

SpecIntr == InitIntr /\ [][NextIntr]_vars

-----------------------------------------------------------------------------
(* kinit on the boot hart *)

InitBoot ==
    /\ page_allocated \in [Slots -> {0, 1}]
    /\ base_addr = 0
    /\ halted = FALSE
    /\ panic_msg = ""
    /\ ret = NoPtr
    /\ out = <<>>
    /\ live = EmptyBag
    /\ hist = <<>>
    /\ pre_table = page_allocated
    /\ nops = 0
    /\ satp_args = NoCall
    /\ satp_val = NoVal
    /\ pc = 1
    /\ layout \in [heap_start : HeapStarts,
                    heap_size : {n * PAGE_SIZE : n \in HeapPages},
                    root : RootAddrs]
    /\ pgtable = {}
    /\ satp_reg = {}
    /\ mscratch = NoPtr
    /\ trap_frame = [h \in Harts |-> UnsetFrame]
    /\ stack_addr = NoPtr
    /\ events = <<>>
    /\ AuxIdle
    \* sstatus.SIE is whatever the hart arrives with: kinit is the first
    \* code that runs and nothing in it writes sstatus
    /\ intr \in [sext : {FALSE}, ssoft : {FALSE}, stimer : {FALSE},
                  sie : BOOLEAN]

At(step) == ~halted /\ pc \in 1 .. Len(KinitSteps) /\ KinitSteps[pc] = step

\* the allocator part of a step that calls allocate(size)
AllocStep(size) ==
    LET r == allocate(page_allocated, base_addr, size)
    IN  /\ page_allocated' = r.table
        /\ ret' = r.ptr
        /\ halted' = ~r.ok
        /\ panic_msg' = r.msg
        /\ live' = IF r.ok
                   THEN live (+) SetToBag({[addr |-> r.ptr, size |-> size]})
                   ELSE live
        /\ hist' = Push(hist, Call("allocate", size, r.ptr, r.ok))
        /\ pre_table' = page_allocated
        /\ nops' = Bump(nops)
        /\ out' = <<>>
        /\ UNCHANGED base_addr

\* lib.rs:54 alloc::init()
KAllocInit ==
    /\ At("alloc_init")
    /\ base_addr' = align_val(layout.heap_start, PAGE_ORDER)
    /\ page_allocated' = [s \in Slots |-> 0]
    /\ pre_table' = page_allocated
    /\ hist' = <<Call("init", 0, NoPtr, TRUE)>>
    /\ nops' = 0
    /\ pc' = pc + 1
    /\ UNCHANGED <<halted, panic_msg, ret, out, live, satpVars, layout, pgtable,
                   satp_reg, mscratch, trap_frame, stack_addr, events>>
    /\ UNCHANGED <<lock, auxVars>>

\* lib.rs:55-64 uart::init(), page::init(), the UART and the log lines: the
\* global allocator hands these collaborators whatever pages they ask for
KCollabInit ==
    /\ At("collab_init")
    /\ \E n \in 0 .. MaxEarlyPages :
         IF n = 0
         THEN UNCHANGED <<allocVars, halted, panic_msg>>
         ELSE AllocStep(n * PAGE_SIZE)
    /\ pc' = pc + 1
    /\ UNCHANGED <<satpVars, layout, pgtable, satp_reg, mscratch, trap_frame,
                   stack_addr, events>>
    /\ lock' = AfterAllocCall(lock, halted')
    /\ UNCHANGED auxVars

\* lib.rs:67 let mut pgtable = KERNEL_PGTABLE().lock()
KLockPgtable ==
    /\ At("lock_pgtable")
    /\ ~lock.pgtable
    /\ lock' = [lock EXCEPT !.pgtable = TRUE]
    /\ pc' = pc + 1
    /\ UNCHANGED <<allocVars, halted, panic_msg, satpVars, layout, pgtable,
                   satp_reg, mscratch, trap_frame, stack_addr, events, auxVars>>

\* lib.rs:69-117 the mapping calls on the locked kernel table
KStaticMap ==
    /\ \E step \in StaticMapSteps :
         /\ At(step)
         /\ pgtable' = StaticMap(pgtable, step, layout)
         /\ events' = Append(events, step)
    /\ pc' = pc + 1
    /\ UNCHANGED <<allocVars, halted, panic_msg, satpVars, layout, satp_reg,
                   mscratch, trap_frame, stack_addr>>
    /\ UNCHANGED <<lock, auxVars>>

\* lib.rs:122-123 root_ppn = address of the table; build_satp(8, 0, root_ppn)
KBuildSatp ==
    /\ At("build_satp")
    /\ LET r == build_satp(U(8), U(0), U(layout.root))
       IN  /\ satp_args' = [mode |-> 8, asid |-> 0,
                            frame |-> U(layout.root \div PAGE_SIZE),
                            off |-> layout.root % PAGE_SIZE]
           /\ satp_val' = IF r.ok THEN r.val ELSE NoVal
           /\ halted' = ~r.ok
           /\ panic_msg' = r.msg
    /\ pc' = pc + 1
    /\ UNCHANGED <<allocVars, layout, pgtable, satp_reg, mscratch, trap_frame,
                   stack_addr, events>>
    /\ UNCHANGED <<lock, auxVars>>

\* lib.rs:124 mscratch::write(&mut KERNEL_TRAP_FRAME[0])
KWriteMscratch ==
    /\ At("write_mscratch")
    /\ mscratch' = 0
    /\ events' = Append(events, "write_mscratch")
    /\ pc' = pc + 1
    /\ UNCHANGED <<allocVars, halted, panic_msg, satpVars, layout, pgtable,
                   satp_reg, trap_frame, stack_addr>>
    /\ UNCHANGED <<lock, auxVars>>

\* lib.rs:125 KERNEL_TRAP_FRAME[0].satp = satp_val
KStoreSatp ==
    /\ At("store_satp")
    /\ trap_frame' = [trap_frame EXCEPT ![0].satp = satp_val]
    /\ pc' = pc + 1
    /\ UNCHANGED <<allocVars, halted, panic_msg, satpVars, layout, pgtable,
                   satp_reg, mscratch, stack_addr, events>>
    /\ UNCHANGED <<lock, auxVars>>

\* lib.rs:126 stack_addr = ALLOC().lock().allocate(1)
KAllocStack ==
    /\ At("alloc_stack")
    /\ AllocStep(1)
    /\ stack_addr' = ret'
    /\ pc' = pc + 1
    /\ UNCHANGED <<satpVars, layout, pgtable, satp_reg, mscratch, trap_frame,
                   events>>
    /\ lock' = AfterAllocCall(lock, halted')
    /\ UNCHANGED auxVars

\* mutant of KStoreSp: sp is set to the bottom of the stack page
KStoreSp_Bottom ==
    /\ At("store_sp")
    /\ trap_frame' = [trap_frame EXCEPT ![0].sp = stack_addr]
    /\ pc' = pc + 1
    /\ UNCHANGED <<allocVars, halted, panic_msg, satpVars, layout, pgtable,
                   satp_reg, mscratch, stack_addr, events>>
    /\ UNCHANGED <<lock, auxVars>>

\* lib.rs:127 KERNEL_TRAP_FRAME[0].sp = stack_addr.add(PAGE_SIZE)
KStoreSp ==
    /\ At("store_sp")
    /\ trap_frame' = [trap_frame EXCEPT ![0].sp = stack_addr + PAGE_SIZE]
    /\ pc' = pc + 1
    /\ UNCHANGED <<allocVars, halted, panic_msg, satpVars, layout, pgtable,
                   satp_reg, mscratch, stack_addr, events>>
    /\ UNCHANGED <<lock, auxVars>>

\* lib.rs:128 KERNEL_TRAP_FRAME[0].hartid = 0
KStoreHartid ==
    /\ At("store_hartid")
    /\ trap_frame' = [trap_frame EXCEPT ![0].hartid = 0]
    /\ pc' = pc + 1
    /\ UNCHANGED <<allocVars, halted, panic_msg, satpVars, layout, pgtable,
                   satp_reg, mscratch, stack_addr, events>>
    /\ UNCHANGED <<lock, auxVars>>

\* lib.rs:129-133 id_map_range(stack_addr, stack_addr + PAGE_SIZE, RW)
KMapStack ==
    /\ At("map_stack")
    /\ pgtable' = id_map_range(pgtable, stack_addr, stack_addr + PAGE_SIZE, "RW")
    /\ events' = Append(events, "map_stack")
    /\ pc' = pc + 1
    /\ UNCHANGED <<allocVars, halted, panic_msg, satpVars, layout, satp_reg,
                   mscratch, trap_frame, stack_addr>>
    /\ UNCHANGED <<lock, auxVars>>

\* lib.rs:135 csrw satp, satp_val
KWriteSatp ==
    /\ At("csrw_satp")
    /\ satp_reg' = satp_val
    /\ events' = Append(events, "csrw_satp")
    /\ pc' = pc + 1
    /\ UNCHANGED <<allocVars, halted, panic_msg, satpVars, layout, pgtable,
                   mscratch, trap_frame, stack_addr>>
    /\ UNCHANGED <<lock, auxVars>>

\* lib.rs:136 sfence.vma zero, zero
KSfence ==
    /\ At("sfence_vma")
    /\ events' = Append(events, "sfence_vma")
    /\ pc' = pc + 1
    /\ UNCHANGED <<allocVars, halted, panic_msg, satpVars, layout, pgtable,
                   satp_reg, mscratch, trap_frame, stack_addr>>
    /\ UNCHANGED <<lock, auxVars>>

\* lib.rs:139-140 the last log line and the return, which drops the guard of
\* the kernel page table
KReturn ==
    /\ At("return")
    /\ pc' = pc + 1
    /\ UNCHANGED <<allocVars, halted, panic_msg, satpVars, layout, pgtable,
                   satp_reg, mscratch, trap_frame, stack_addr, events>>
    /\ lock' = [lock EXCEPT !.pgtable = FALSE]
    /\ UNCHANGED auxVars

NextBoot ==
    \/ KAllocInit \/ KCollabInit \/ KLockPgtable \/ KStaticMap \/ KBuildSatp
    \/ KWriteMscratch \/ KStoreSatp \/ KAllocStack \/ KStoreSp \/ KStoreHartid
    \/ KMapStack \/ KWriteSatp \/ KSfence \/ KReturn

SpecBoot == InitBoot /\ [][NextBoot]_vars

-----------------------------------------------------------------------------
(* kinit_hart on the other harts, running beside kinit *)

\* every hart starts at its entry point; the boot hart with interrupts off
InitHarts ==
    /\ InitBoot
    /\ ~intr.sie

\* what no statement of kinit_hart touches
HartFrame ==
    UNCHANGED <<allocVars, halted, panic_msg, satpVars, pc, layout, pgtable,
                satp_reg, mscratch, stack_addr, events, lock, intr, intr_hist,
                intr_got, freed, placed>>

\* lib.rs:149 mscratch::write(&mut KERNEL_TRAP_FRAME[hartid])
HartWriteMscratch(h) ==
    /\ hart_pc[h] = "entry"
    /\ hart_mscratch' = [hart_mscratch EXCEPT ![h] = h]
    /\ hart_pc' = [hart_pc EXCEPT ![h] = "store_hartid"]
    /\ UNCHANGED trap_frame
    /\ HartFrame

\* mutant of HartStoreHartid: the record also takes the boot hart's satp, as
\* in the lines commented out at lib.rs:151-153
HartStoreHartid_CopySatp(h) ==
    /\ hart_pc[h] = "store_hartid"
    /\ trap_frame' = [trap_frame EXCEPT ![h].hartid = h,
                                        ![h].satp = trap_frame[0].satp]
    /\ hart_pc' = [hart_pc EXCEPT ![h] = "parked"]
    /\ UNCHANGED hart_mscratch
    /\ HartFrame

\* lib.rs:150 KERNEL_TRAP_FRAME[hartid].hartid = hartid, then the call of
\* wait_forever() at lib.rs:157
HartStoreHartid(h) ==
    /\ hart_pc[h] = "store_hartid"
    /\ trap_frame' = [trap_frame EXCEPT ![h].hartid = h]
    /\ hart_pc' = [hart_pc EXCEPT ![h] = "parked"]
    /\ UNCHANGED hart_mscratch
    /\ HartFrame

\* lib.rs:160-166 one turn of loop { wfi }
HartWait(h) ==
    /\ hart_pc[h] = "parked"
    /\ UNCHANGED <<hart_pc, hart_mscratch, trap_frame>>
    /\ HartFrame

NextHarts ==
    \/ NextBoot
    \/ \E h \in Secondary :
         HartWriteMscratch(h) \/ HartStoreHartid(h) \/ HartWait(h)

SpecHarts == InitHarts /\ [][NextHarts]_vars

-----------------------------------------------------------------------------
(* what the claims speak about, computed from the callers' point of view *)

\* a request of `size` bytes rounded up to whole pages
CeilPages(size) == (size + PAGE_SIZE - 1) \div PAGE_SIZE

\* the slots [i, i+n) of the allocation a = [addr, size]
FirstSlot(a) == (a.addr - base_addr) \div PAGE_SIZE
PageRange(a) == FirstSlot(a) .. (FirstSlot(a) + CeilPages(a.size) - 1)

LiveSet == BagToSet(live)

\* the allocation a recorded call c was about
Subject(c) == [addr |-> c.ptr, size |-> c.size]

\* all of [i, i+n) lies in the table and is free in tab
FreeRunAt(tab, i, n) ==
    /\ i + n <= MAX_PAGE
    /\ \A s \in i .. (i + n - 1) : tab[s] = 0

RECURSIVE SumPages(_)
SumPages(recs) ==
    IF recs = <<>> THEN 0 ELSE Head(recs).pages + SumPages(Tail(recs))

RECURSIVE SumLive(_)
SumLive(b) ==
    IF b = EmptyBag THEN 0
    ELSE LET a == CHOOSE x \in BagToSet(b) : TRUE
         IN  CeilPages(a.size) + SumLive(b (-) SetToBag({a}))

\* C1: while no call has ended fatally, any two live allocations occupy
\* disjoint page ranges (and no address is handed out twice).
C1_LiveRangesDisjoint ==
    ~halted =>
        /\ \A a \in LiveSet : CopiesIn(a, live) = 1
        /\ \A a, b \in LiveSet :
             a # b => PageRange(a) \cap PageRange(b) = {}

\* C1 witness: two allocations are live right after a slot freed by a
\* deallocate has been handed out again.
C1_Witness ==
    /\ ~halted
    /\ Len(hist) = 2
    /\ Prev.op = "deallocate"
    /\ Last.op = "allocate"
    /\ Last.ptr = Prev.ptr
    /\ Cardinality(LiveSet) >= 2

\* C2: every slot of a live allocation of n pages holds exactly n, from the
\* allocate that created it until its own deallocate.
C2_RunLength ==
    \A a \in LiveSet :
        \A s \in PageRange(a) :
            s \in Slots /\ page_allocated[s] = CeilPages(a.size)

\* C2 witness: a run of at least two pages is still intact after a later
\* allocate and a deallocate of another allocation.
C2_Witness ==
    /\ Len(hist) = 2
    /\ Prev.op = "allocate"
    /\ Last.op = "deallocate"
    /\ \E a \in LiveSet :
         /\ CeilPages(a.size) >= 2
         /\ a.addr # Prev.ptr
         /\ a.addr > Last.ptr

\* C3: deallocate(p) of a live allocation of n pages at [i, i+n) leaves all
\* of [i, i+n) at 0, and an allocate of the same number of pages made right
\* after it succeeds with an address <= p, and with p itself when no free run
\* of n pages starts below i.
C3_FreedRangeReusable ==
    /\ (hist # <<>> /\ Last.op = "deallocate") =>
         /\ Last.ok
         /\ \A s \in PageRange(Subject(Last)) : page_allocated[s] = 0
    /\ (Len(hist) = 2 /\ Prev.op = "deallocate" /\ Last.op = "allocate"
          /\ CeilPages(Last.size) = CeilPages(Prev.size)) =>
         /\ Last.ok
         /\ ~halted
         /\ ret = Last.ptr
         /\ Last.ptr <= Prev.ptr
         /\ (\A k \in 0 .. (FirstSlot(Subject(Prev)) - 1) :
                ~FreeRunAt(pre_table, k, CeilPages(Prev.size)))
              => Last.ptr = Prev.ptr

\* C3 witness: the allocate after a deallocate got the freed address back
\* while a lower slot was occupied.
C3_Witness ==
    /\ Len(hist) = 2
    /\ Prev.op = "deallocate"
    /\ Last.op = "allocate"
    /\ CeilPages(Last.size) = CeilPages(Prev.size)
    /\ Last.ptr = Prev.ptr
    /\ FirstSlot(Subject(Prev)) > 0

\* C3 second witness shape: the same request was placed lower than p.
C3_WitnessLower ==
    /\ Len(hist) = 2
    /\ Prev.op = "deallocate"
    /\ Last.op = "allocate"
    /\ CeilPages(Last.size) = CeilPages(Prev.size)
    /\ Last.ok
    /\ Last.ptr < Prev.ptr

\* C4: debug completes and prints exactly one record per live allocation,
\* with that allocation's address and page count; the printed run lengths sum
\* to the live requests' sizes rounded up to pages.
C4_DebugReportsLive ==
    (hist # <<>> /\ Last.op = "debug") =>
        /\ Last.ok
        /\ Len(out) = BagCardinality(live)
        /\ {<<out[k].from, out[k].pages>> : k \in 1 .. Len(out)}
             = {<<a.addr, CeilPages(a.size)>> : a \in LiveSet}
        /\ SumPages(out) = SumLive(live)

\* C4 witness: debug ran with two live allocations, one of several pages,
\* and a free slot below one of them.
C4_Witness ==
    /\ hist # <<>>
    /\ Last.op = "debug"
    /\ Len(out) = 2
    /\ out[1].index > 0
    /\ \E k \in 1 .. 2 : out[k].pages >= 2

\* C5: on the freshly initialised allocator a request of exactly MAX_PAGE
\* pages succeeds with base_addr; a second one right after it is fatal.
C5_ExhaustionBoundary ==
    /\ (nops = 1 /\ Last.op = "allocate" /\ CeilPages(Last.size) = MAX_PAGE) =>
         /\ Last.ok
         /\ ~halted
         /\ ret = base_addr
    /\ (nops = 2 /\ Prev.op = "allocate" /\ Last.op = "allocate"
          /\ CeilPages(Prev.size) = MAX_PAGE
          /\ CeilPages(Last.size) = MAX_PAGE) =>
         /\ Prev.ok
         /\ ~Last.ok
         /\ halted

\* C5 witness: the second MAX_PAGE request after init has been made.
C5_Witness ==
    /\ nops = 2
    /\ Prev.op = "allocate"
    /\ Last.op = "allocate"
    /\ CeilPages(Prev.size) = MAX_PAGE
    /\ CeilPages(Last.size) = MAX_PAGE
    /\ Prev.ptr = base_addr
    /\ halted

C6_WitnessTooLarge ==
    /\ hist # <<>>
    /\ Last.op = "allocate"
    /\ halted
    /\ CeilPages(Last.size) > MAX_PAGE

\* C7: build_satp is fatal for every addr that is not a multiple of
\* PAGE_SIZE and returns a value for every page-aligned addr, whatever the
\* mode and the ASID.
C7_SatpAlignment ==
    satp_args # NoCall =>
        /\ halted <=> satp_args.off # 0
        /\ halted => satp_val = NoVal /\ panic_msg = "satp not aligned!"
        /\ ~halted => satp_val \subseteq WordBits

\* C7 witness: a root that is 8-byte but not page aligned was refused.
C7_Witness ==
    /\ satp_args # NoCall
    /\ satp_args.off = 2048
    /\ satp_args.mode = 8
    /\ halted

\* C7 second witness: a page-aligned root was accepted.
C7_WitnessAligned ==
    /\ satp_args # NoCall
    /\ satp_args.off = 0
    /\ satp_args.frame = U(524436)
    /\ satp_val # NoVal

\* the three fields of a satp value: mode in bits 60..63, ASID in bits
\* 44..59, root frame number in bits 0..43
ModeField(v) == Shr(v, 60)
AsidField(v) == BitAnd(Shr(v, 44), 0 .. 15)
FrameField(v) == BitAnd(v, 0 .. 43)

\* C8: the value returned holds mode in the top 4 bits, asid mod 2^16 in the
\* next 16 and addr >> 12 below them, each readable back, for every frame
\* number that fits in the 44 bits below the ASID field.
C8_SatpLayout ==
    (satp_args # NoCall /\ satp_val # NoVal /\ satp_args.frame \subseteq 0 .. 43) =>
        /\ ModeField(satp_val) = U(satp_args.mode)
        /\ AsidField(satp_val) = U(satp_args.asid % 65536)
        /\ FrameField(satp_val) = satp_args.frame

\* what the code does keep of C8: the fields are read back for every frame
\* number below 2^40
C8_SatpLayout40 ==
    (satp_args # NoCall /\ satp_val # NoVal /\ satp_args.frame \subseteq 0 .. 39) =>
        /\ ModeField(satp_val) = U(satp_args.mode)
        /\ AsidField(satp_val) = U(satp_args.asid % 65536)
        /\ FrameField(satp_val) = satp_args.frame

\* the mapping calls kinit has to make
MapEvents == StaticMapSteps \cup {"map_stack"}

MappedAs(va, pa, perm) == [va |-> va, pa |-> pa, perm |-> perm] \in pgtable

\* the page an address lies in is identity-mapped read+write
InRWPage(a) ==
    \E m \in pgtable : m.va = a - (a % PAGE_SIZE) /\ m.perm = "RW"

\* C9: every mapping call of kinit, the one of the fresh stack page
\* included, is made before satp is written, none after it, and sfence.vma
\* comes after the write and before kinit returns.
C9_MapsBeforeSatp ==
    /\ \A k \in 1 .. Len(events) :
         events[k] = "csrw_satp" =>
           /\ \A m \in MapEvents : \E j \in 1 .. (k - 1) : events[j] = m
           /\ \A j \in (k + 1) .. Len(events) : events[j] \notin MapEvents
           /\ MappedAs(TEXT_START, TEXT_START, "RX")
           /\ MappedAs(UART_BASE_ADDR, UART_BASE_ADDR, "RW")
           /\ MappedAs(TRAMPOLINE_START, TRAMPOLINE_TEXT_START, "RX")
           /\ MappedAs(base_addr, base_addr, "RW")
           /\ MappedAs(stack_addr, stack_addr, "RW")
    /\ satp_reg # {} =>
         \E k \in 1 .. Len(events) : events[k] = "csrw_satp"
    /\ pc = KinitDone =>
         \E k, j \in 1 .. Len(events) :
            k < j /\ events[k] = "csrw_satp" /\ events[j] = "sfence_vma"

\* C9 witness: kinit has returned with translation switched on.
C9_Witness ==
    /\ pc = KinitDone
    /\ satp_reg # {}
    /\ Len(events) >= 14

\* C10 as claimed: after kinit, record 0 holds the nonzero satp value that
\* is in the register and encodes the frame of the kernel table, hartid 0,
\* and an sp lying inside a page mapped read+write.
C10_BootTrapFrame ==
    pc = KinitDone =>
        /\ trap_frame[0].satp # {}
        /\ trap_frame[0].satp = satp_reg
        /\ FrameField(trap_frame[0].satp) = U(layout.root \div PAGE_SIZE)
        /\ ModeField(trap_frame[0].satp) = U(8)
        /\ trap_frame[0].hartid = 0
        /\ InRWPage(trap_frame[0].sp)

\* C10 amended: as above, but sp is the address one past the end of the
\* freshly allocated stack page, and it is that page, the one sp - 1 lies
\* in, that is mapped read+write.
C10_BootTrapFrameStackTop ==
    pc = KinitDone =>
        /\ trap_frame[0].satp # {}
        /\ trap_frame[0].satp = satp_reg
        /\ FrameField(trap_frame[0].satp) = U(layout.root \div PAGE_SIZE)
        /\ ModeField(trap_frame[0].satp) = U(8)
        /\ trap_frame[0].hartid = 0
        /\ trap_frame[0].sp = stack_addr + PAGE_SIZE
        /\ trap_frame[0].sp % PAGE_SIZE = 0
        /\ [addr |-> stack_addr, size |-> 1] \in LiveSet
        /\ InRWPage(trap_frame[0].sp - 1)

\* C10 witness: kinit has returned and the stack is not the first heap page.
C10_Witness ==
    /\ pc = KinitDone
    /\ stack_addr > base_addr
    /\ trap_frame[0].sp = stack_addr + PAGE_SIZE

\* the index of a step of kinit
StepIndex(step) == CHOOSE k \in 1 .. Len(KinitSteps) : KinitSteps[k] = step

\* C15: when the kernel page table is not page-aligned, kinit halts in
\* build_satp before mscratch or satp is written and before any field of
\* hart 0's trap-context record is modified.
C15_MisalignedRootFatalFirst ==
    layout.root % PAGE_SIZE # 0 =>
        /\ mscratch = NoPtr
        /\ satp_reg = {}
        /\ trap_frame = [h \in Harts |-> UnsetFrame]
        /\ \A k \in 1 .. Len(events) :
             events[k] \notin {"write_mscratch", "csrw_satp"}
        /\ pc <= StepIndex("build_satp") + 1
        /\ pc = StepIndex("build_satp") + 1 =>
             halted /\ panic_msg = "satp not aligned!"

\* C15 witness: kinit has halted in build_satp after the static mappings.
C15_Witness ==
    /\ layout.root % PAGE_SIZE # 0
    /\ halted
    /\ panic_msg = "satp not aligned!"
    /\ Len(events) = Cardinality(StaticMapSteps)

\* the lowest index at which a free run of n pages starts in tab
LowestFit(tab, n) ==
    CHOOSE i \in Slots :
        /\ FreeRunAt(tab, i, n)
        /\ \A k \in 0 .. (i - 1) : ~FreeRunAt(tab, k, n)

\* C16, the state after a successful allocate: the pointer is that of the
\* lowest index i whose ceil(size / PAGE_SIZE) slots are all free, exactly
\* those slots now hold that page count and every other slot is as before.
C16_PlacedFirstFit ==
    (hist # <<>> /\ Last.op = "allocate" /\ Last.ok) =>
        LET n == CeilPages(Last.size)
        IN  /\ \E i \in Slots : FreeRunAt(pre_table, i, n)
            /\ Last.ptr = base_addr + LowestFit(pre_table, n) * PAGE_SIZE
            /\ ret = Last.ptr
            /\ page_allocated =
                 [s \in Slots |->
                    IF LowestFit(pre_table, n) <= s /\ s < LowestFit(pre_table, n) + n
                    THEN n ELSE pre_table[s]]

C18_AllocateInBounds ==
    (hist # <<>> /\ Last.op = "allocate") =>
        /\ AllocTouched(pre_table, Last.size) \subseteq Slots
        /\ (\E i \in Slots :
               /\ pre_table[i] = 0
               /\ i + CeilPages(Last.size) > MAX_PAGE
               /\ \A s \in i .. (MAX_PAGE - 1) : pre_table[s] = 0
               /\ \A k \in 0 .. (i - 1) :
                    ~FreeRunAt(pre_table, k, CeilPages(Last.size)))
             => (halted /\ panic_msg = "index out of bounds"
                   /\ page_allocated = pre_table)

\* C18 witness: a run starting at a free slot would have passed the end of
\* the table, and the request ended in the bounds-check panic.
C18_Witness ==
    /\ hist # <<>>
    /\ Last.op = "allocate"
    /\ halted
    /\ panic_msg = "index out of bounds"
    /\ CeilPages(Last.size) <= MAX_PAGE
    /\ pre_table[MAX_PAGE - 1] = 0
    /\ pre_table[0] # 0

\* C20: in every table state the callers can reach, the scan of debug ends
\* with its index exactly MAX_PAGE, having advanced by 1 on a free slot and
\* by the run length on an occupied one, and reads no index >= MAX_PAGE.
C20_DebugScanTerminates ==
    (hist # <<>> /\ ~halted) =>
        LET d == DebugPath(page_allocated, 0, <<>>)
        IN  /\ d.ok
            /\ d.final = MAX_PAGE
            /\ \A k \in 1 .. Len(d.path) :
                 /\ d.path[k] \in Slots
                 /\ (IF k < Len(d.path) THEN d.path[k + 1] ELSE d.final)
                      - d.path[k]
                      = (IF page_allocated[d.path[k]] = 0 THEN 1
                         ELSE page_allocated[d.path[k]])
            /\ (Last.op = "debug" => Last.ok)

\* C20 witness: debug has run on a table with a free slot in front of two
\* runs, the last of which ends at the end of the table.
C20_Witness ==
    /\ hist # <<>>
    /\ Last.op = "debug"
    /\ ~halted
    /\ page_allocated[0] = 0
    /\ Len(out) = 2
    /\ out[2].index + out[2].pages = MAX_PAGE
    /\ out[2].pages >= 2

\* the positions of the intr_on and intr_off calls in the history
Switches == {k \in 1 .. Len(intr_hist) : intr_hist[k] \in {"on", "off"}}

\* the most recent of them
LastSwitch == intr_hist[CHOOSE k \in Switches : \A m \in Switches : m <= k]

\* C14, the state part: once intr_on has been called the three source bits
\* are set, the global bit is set exactly when the most recent of the
\* intr_on / intr_off calls was intr_on, and intr_get returns that bit.
C14_IntrBits ==
    /\ (\E k \in Switches : intr_hist[k] = "on") =>
         intr.sext /\ intr.ssoft /\ intr.stimer
    /\ Switches # {} => (intr.sie <=> LastSwitch = "on")
    /\ (Switches # {} /\ intr_hist[Len(intr_hist)] = "get") =>
         (intr_got[1] <=> LastSwitch = "on")

\* C14: after calls of intr_on and intr_off with at least one intr_on the
\* three source-enable bits are set, intr_off changes only the global bit,
\* and intr_get() is true exactly when the most recent call was intr_on.
C14_IntrOnOff ==
    /\ []C14_IntrBits
    /\ [][intr_hist' = Append(intr_hist, "off") =>
             /\ intr'.sext = intr.sext
             /\ intr'.ssoft = intr.ssoft
             /\ intr'.stimer = intr.stimer]_vars

\* C14 witness: intr_on, then intr_off, then intr_get returning false with
\* the timer source still enabled.
C14_Witness ==
    /\ intr_hist = <<"get", "on", "off", "get">>
    /\ intr_got = <<FALSE>>
    /\ intr.stimer

\* C12: the slot table and the kernel page table are touched only under
\* their locks, and every lock taken is released on every path out of its
\* scope, the fatal path included, so that none stays held once kinit has
\* returned or halted.
C12_LocksReleased ==
    /\ (pc > StepIndex("lock_pgtable") /\ pc <= StepIndex("return")) =>
         lock.pgtable
    /\ (pc \in 1 .. StepIndex("lock_pgtable")) => Len(events) = 0
    /\ pc = KinitDone => (~lock.alloc /\ ~lock.pgtable)
    /\ halted => (~lock.alloc /\ ~lock.pgtable)

\* C13: from the write of mscratch up to and including the write of satp
\* the global interrupt-enable bit is clear.
C13_InterruptsOffDuringKinit ==
    (pc > StepIndex("write_mscratch") /\ pc <= StepIndex("csrw_satp") + 1) =>
        ~intr.sie

\* C11, the state part: the record of a secondary hart has satp and sp
\* unset, its hartid is the hart's own once stored, and the hart's mscratch
\* points at its own record once written.
C11_SecondaryRecords ==
    \A h \in Secondary :
        /\ trap_frame[h].satp = {}
        /\ trap_frame[h].sp = 0
        /\ trap_frame[h].hartid = (IF hart_pc[h] = "parked" THEN h ELSE 0)
        /\ hart_mscratch[h] = (IF hart_pc[h] = "entry" THEN NoPtr ELSE h)

\* C11: under every interleaving with kinit, kinit_hart(h) sets only the
\* hartid of record h and the hart's own mscratch, leaves satp and sp of the
\* record unset, touches no other record, no allocation, no mapping and no
\* lock, and then stays in the wait loop.
C11_SecondaryHartBringUp ==
    /\ []C11_SecondaryRecords
    /\ [][hart_pc' # hart_pc =>
             /\ UNCHANGED <<allocVars, pgtable, events, lock, satp_reg,
                            mscratch, halted>>
             /\ \A g \in Harts :
                  (g = 0 \/ hart_pc'[g] = hart_pc[g]) =>
                      trap_frame'[g] = trap_frame[g]]_vars
    /\ [][\A h \in Secondary :
             hart_pc[h] = "parked" => hart_pc'[h] = "parked"]_vars

\* C11 witness: every secondary hart is parked and kinit has returned with
\* the boot hart's record filled in.
C11_Witness ==
    /\ \A h \in Secondary : hart_pc[h] = "parked"
    /\ pc = KinitDone
    /\ trap_frame[0].satp # {}
    /\ trap_frame[0].sp # 0

\* two freed runs that touch: f ends where g starts
Adjacent(f, g) == f.start + f.pages = g.start

Larger(a, b) == IF a >= b THEN a ELSE b

\* the run p lies on both sides of the slot boundary at index k
Spans(p, k) == p.start < k /\ k < p.start + p.pages

\* C17 as stated: two adjacent freed runs stay separate free regions, so a
\* request for more pages than the larger of them is never placed in a range
\* that spans the boundary between them.
C17_FreedRunsStaySeparate ==
    \A p \in placed : \A f \in p.over, g \in p.over :
        (Adjacent(f, g) /\ p.pages > Larger(f.pages, g.pages)) =>
            ~Spans(p, g.start)

\* C17, amended: deallocate only zeroes the slots of a run, so freed runs
\* leave all their slots free with nothing marking where one ended, and
\* allocate places a request at the lowest index with enough free slots:
\* a request of at most a + b pages goes to the start of two adjacent freed
\* runs of a and b pages when no free run of that length starts lower.
C17_FreedRunsMerge ==
    /\ \A f \in freed : \A s \in RunSlots(f) : page_allocated[s] = 0
    /\ \A p \in placed :
         /\ p.start = LowestFit(pre_table, p.pages)
         /\ \A f \in p.over : \A s \in RunSlots(f) : pre_table[s] = 0
         /\ \A f \in p.over, g \in p.over :
              (/\ Adjacent(f, g)
               /\ p.pages <= f.pages + g.pages
               /\ \A k \in 0 .. (f.start - 1) : ~FreeRunAt(pre_table, k, p.pages))
              => p.start = f.start

\* C17 witness: a request larger than either of two adjacent freed runs was
\* placed at the start of the first and runs across their boundary.
C17_Witness ==
    \E p \in placed : \E f \in p.over, g \in p.over :
        /\ Adjacent(f, g)
        /\ p.pages > Larger(f.pages, g.pages)
        /\ p.start = f.start
        /\ Spans(p, g.start)
        /\ f.start > 0

\* C19: every allocation a caller holds, whatever its size, has at least
\* one page reserved, its address is held by no other allocation, and the
\* slots of its run are intact whatever other pointers were deallocated.
C19_EveryAllocationReserves ==
    /\ \A a \in LiveSet : page_allocated[FirstSlot(a)] # 0
    /\ \A a \in LiveSet : CopiesIn(a, live) = 1
    /\ \A a \in LiveSet, b \in LiveSet : a # b => a.addr # b.addr
    /\ \A a \in LiveSet :
         a.size > 0 =>
             \A s \in PageRange(a) : page_allocated[s] = CeilPages(a.size)

=============================================================================
